---------------------------- MODULE Spec2Model ----------------------------
(***************************************************************************)
(* Model of validate_server_config.py: the validator                       *)
(* validate_server_json(config) and the command-line driver main().        *)
(*                                                                         *)
(* JSON values are tagged one-field records; a Python str is the sequence  *)
(* of its characters, so that startswith and the substring test of `in`    *)
(* are computed, and a Python dict is a function from keys (themselves     *)
(* character sequences) to values.                                         *)
(***************************************************************************)
EXTENDS Integers, Sequences, FiniteSets, TLC

VARIABLES
    fs,        \* what main finds at server.json, by the way the load ends:
               \* "missing" (no such file), "directory", "not_utf8" (bytes
               \* that f.read() cannot decode as UTF-8), and for UTF-8 text,
               \* by what the decoder's scan meets first: "invalid_json" (a
               \* syntax error), "too_deep" (nesting beyond the recursion
               \* limit), "int_too_long" (an integer literal of more than
               \* 4300 digits), or none of these: "ok"
    content,   \* the document json.load decodes when fs = "ok"
    pool,      \* documents of the repeated-call harness (SpecCalls)
    memo,      \* per pool slot: the document as first passed, the first
               \* call's outcome, and whether a later call repeated it
    last,      \* pool slot of the latest harness call (0: none yet)
    pc,        \* position in main
    config,    \* main's local `config` / the argument of the latest call
    errors,    \* the latest call's `errors` list
    warnings,  \* the latest call's `warnings` list
    exc,       \* the exception that ended the run or the call, "none" if none
    out,       \* lines printed to stdout, as tags
    exit,      \* process exit status, -1 while running
    calls,     \* number of invocations of validate_server_json by main
    outcome    \* how the latest call ended: "none" yet, "returned", "raised"

vars == <<fs, content, pool, memo, last, pc, config, errors, warnings, exc,
          out, exit, calls, outcome>>

---------------------------------------------------------------------------
(* JSON values as Python objects *)

Str(s) == [str |-> s]
Num(n) == [num |-> n]
Bool(b) == [bool |-> b]
Null == [null |-> TRUE]
List(xs) == [list |-> xs]
Dict(f) == [dict |-> f]

\* Marks a key left out of a document under construction; never a value.
Absent == [absent |-> TRUE]

\* A dict from a function whose Absent entries are keys the dict lacks.
MkDict(f) == Dict([k \in {x \in DOMAIN f : f[x] # Absent} |-> f[k]])

EmptyDict == MkDict([k \in {} |-> Absent])

Kind(v) == CHOOSE k \in DOMAIN v : TRUE
IsStr(v) == Kind(v) = "str"
IsList(v) == Kind(v) = "list"
IsDict(v) == Kind(v) = "dict"

\* bool(v)
Truthy(v) ==
    CASE Kind(v) = "str" -> v.str # <<>>
      [] Kind(v) = "num" -> v.num # 0
      [] Kind(v) = "bool" -> v.bool
      [] Kind(v) = "null" -> FALSE
      [] Kind(v) = "list" -> v.list # <<>>
      [] Kind(v) = "dict" -> DOMAIN v.dict # {}

\* len(v) is defined (otherwise TypeError)
HasLen(v) == Kind(v) \in {"str", "list", "dict"}

PyLen(v) ==
    CASE Kind(v) = "str" -> Len(v.str)
      [] Kind(v) = "list" -> Len(v.list)
      [] Kind(v) = "dict" -> Cardinality(DOMAIN v.dict)

\* iter(v) is defined (otherwise TypeError)
Iterable(v) == Kind(v) \in {"str", "list", "dict"}

\* The elements enumerate(v) yields, in order.  Iterating a str yields its
\* characters as one-character strs.  The key order of a dict is not
\* modelled: no input iterates a mapping.
Items(v) ==
    CASE Kind(v) = "list" -> v.list
      [] Kind(v) = "str" -> [i \in 1..Len(v.str) |-> Str(<<v.str[i]>>)]

\* s.startswith(p)
StartsWith(s, p) == Len(p) <= Len(s) /\ SubSeq(s, 1, Len(p)) = p

\* p in s, for strs
IsSubstring(p, s) ==
    \E i \in 0..(Len(s) - Len(p)) : SubSeq(s, i + 1, i + Len(p)) = p

\* `k in v` is defined (otherwise TypeError: argument is not iterable)
CanContain(v) == Kind(v) \in {"str", "list", "dict"}

\* k in v, for the str literal k
Contains(k, v) ==
    CASE Kind(v) = "dict" -> k \in DOMAIN v.dict
      [] Kind(v) = "str" -> IsSubstring(k, v.str)
      [] Kind(v) = "list" -> \E i \in 1..Len(v.list) : v.list[i] = Str(k)

\* d.get(k, default)
GetOr(d, k, default) == IF k \in DOMAIN d.dict THEN d.dict[k] ELSE default

\* d.get(k)
Get(d, k) == GetOr(d, k, Null)

DigitChars == <<"0", "1", "2", "3", "4", "5", "6", "7", "8", "9">>

RECURSIVE NatChars(_)
NatChars(n) ==
    IF n < 10 THEN <<DigitChars[n + 1]>>
    ELSE NatChars(n \div 10) \o <<DigitChars[(n % 10) + 1]>>

\* str(v) as an f-string interpolates it, for scalars
Render(v) ==
    CASE Kind(v) = "str" -> v.str
      [] Kind(v) = "num" ->
           IF v.num < 0 THEN <<"-">> \o NatChars(-v.num) ELSE NatChars(v.num)
      [] Kind(v) = "bool" ->
           IF v.bool THEN <<"T", "r", "u", "e">> ELSE <<"F", "a", "l", "s", "e">>
      [] Kind(v) = "null" -> <<"N", "o", "n", "e">>

---------------------------------------------------------------------------
(* The str literals of the source *)

K_name == <<"n", "a", "m", "e">>
K_version == <<"v", "e", "r", "s", "i", "o", "n">>
K_description == <<"d", "e", "s", "c", "r", "i", "p", "t", "i", "o", "n">>
K_packages == <<"p", "a", "c", "k", "a", "g", "e", "s">>
K_remotes == <<"r", "e", "m", "o", "t", "e", "s">>
K_type == <<"t", "y", "p", "e">>
K_uri == <<"u", "r", "i">>
K_sha256 == <<"s", "h", "a", "2", "5", "6">>
K_platforms == <<"p", "l", "a", "t", "f", "o", "r", "m", "s">>
K_os == <<"o", "s">>
K_arch == <<"a", "r", "c", "h">>
K_endpoint == <<"e", "n", "d", "p", "o", "i", "n", "t">>
K_transport == <<"t", "r", "a", "n", "s", "p", "o", "r", "t">>
K_license == <<"l", "i", "c", "e", "n", "s", "e">>
K_homepage == <<"h", "o", "m", "e", "p", "a", "g", "e">>
K_repository == <<"r", "e", "p", "o", "s", "i", "t", "o", "r", "y">>
K_url == <<"u", "r", "l">>

S_io_github == <<"i", "o", ".", "g", "i", "t", "h", "u", "b", ".">>
S_com == <<"c", "o", "m", ".">>
S_slash == <<"/">>
S_npm == <<"n", "p", "m">>
S_pypi == <<"p", "y", "p", "i">>
S_mcpb == <<"m", "c", "p", "b">>
S_docker == <<"d", "o", "c", "k", "e", "r">>
S_nuget == <<"n", "u", "g", "e", "t">>
S_streamable_http ==
    <<"s", "t", "r", "e", "a", "m", "a", "b", "l", "e", "-", "h", "t", "t", "p">>
S_sse == <<"s", "s", "e">>

required_fields == <<K_name, K_version, K_description>>
recommended_fields == <<K_license, K_homepage, K_repository>>
KnownPackageTypes ==
    {Str(S_npm), Str(S_pypi), Str(S_mcpb), Str(S_docker), Str(S_nuget)}
KnownTransports == {Str(S_streamable_http), Str(S_sse)}

---------------------------------------------------------------------------
(* Messages: the f-string's text with its interpolated values beside it *)

NoIdx == 0 - 1

Msg(text, idx, pidx, arg) ==
    [text |-> text, idx |-> idx, pidx |-> pidx, arg |-> arg]

M_Missing(field) == Msg("Missing required field: {field}", NoIdx, NoIdx, field)
M_Empty(field) == Msg("Field '{field}' cannot be empty", NoIdx, NoIdx, field)
M_Namespace(name) ==
    Msg("Name should use io.github.* or com.* namespace: {name}", NoIdx, NoIdx, name)
M_Slash(name) ==
    Msg("Name should include a slash separator (namespace/name): {name}",
        NoIdx, NoIdx, name)
M_NoDeployment ==
    Msg("Must have at least one package or remote deployment", NoIdx, NoIdx, <<>>)
M_PkgType(idx) == Msg("Package {idx}: Missing 'type' field", idx, NoIdx, <<>>)
M_PkgUnknown(idx, t) ==
    Msg("Package {idx}: Unknown package type '{pkg_type}'", idx, NoIdx, t)
M_PkgUri(idx) ==
    Msg("Package {idx}: MCPB package missing 'uri' field", idx, NoIdx, <<>>)
M_PkgSha(idx) ==
    Msg("Package {idx}: MCPB package missing 'sha256' field", idx, NoIdx, <<>>)
M_PkgPlatforms(idx) ==
    Msg("Package {idx}: MCPB package missing 'platforms' array", idx, NoIdx, <<>>)
M_Platform(idx, pidx, key) ==
    Msg("Package {idx}, Platform {pidx}: Missing '{key}' field", idx, pidx, key)
M_RemEndpoint(idx) == Msg("Remote {idx}: Missing 'endpoint' field", idx, NoIdx, <<>>)
M_RemTransport(idx) ==
    Msg("Remote {idx}: Missing 'transport' field", idx, NoIdx, <<>>)
M_RemUnknown(idx, t) ==
    Msg("Remote {idx}: Unknown transport '{transport}'", idx, NoIdx, t)
M_Recommended(field) ==
    Msg("Recommended field missing: {field}", NoIdx, NoIdx, field)
M_RepoObject == Msg("Repository must be an object", NoIdx, NoIdx, <<>>)
M_RepoType == Msg("Repository missing 'type' field", NoIdx, NoIdx, <<>>)
M_RepoUrl == Msg("Repository missing 'url' field", NoIdx, NoIdx, <<>>)

---------------------------------------------------------------------------
(* validate_server_json: its frame s holds the argument object and the      *)
(* locals; a raised exception ends every later statement.                  *)

Err(s, m) == [s EXCEPT !.errors = Append(@, m)]
Warn(s, m) == [s EXCEPT !.warnings = Append(@, m)]
Raise(s, e) == [s EXCEPT !.exc = e]
Running(s) == s.exc = "none"

\* Mutant: the list outlives the call (a module-level or default-argument list).
errors_init_kept == errors

\* errors = []
errors_init == <<>>

\* warnings = []
warnings_init == <<>>

Frame(cfg) ==
    [config |-> cfg, errors |-> errors_init, warnings |-> warnings_init,
     exc |-> "none", has_packages |-> FALSE, has_remotes |-> FALSE]

\* Mutant: one falsiness test, `if not config.get(field)`, for both cases.
CheckRequired_falsy(s, field) ==
    IF ~Truthy(Get(s.config, field)) THEN Err(s, M_Empty(field)) ELSE s

\* One iteration of the required-fields loop.
CheckRequired(s, field) ==
    IF ~Contains(field, s.config) THEN Err(s, M_Missing(field))
    ELSE IF ~Truthy(s.config.dict[field]) THEN Err(s, M_Empty(field))
    ELSE s

RECURSIVE RequiredLoop(_, _)
RequiredLoop(s, i) ==
    IF i > Len(required_fields) THEN s
    ELSE RequiredLoop(CheckRequired(s, required_fields[i]), i + 1)

RequiredFields(s) == RequiredLoop(s, 1)

\* Mutant: `or` for `and` between the two prefix tests.
NamespaceCheck_or(s, name) ==
    IF ~StartsWith(name, S_io_github) \/ ~StartsWith(name, S_com)
    THEN Warn(s, M_Namespace(name))
    ELSE s

\* The first name-format check.
NamespaceCheck(s, name) ==
    IF ~StartsWith(name, S_io_github) /\ ~StartsWith(name, S_com)
    THEN Warn(s, M_Namespace(name))
    ELSE s

\* The second name-format check.
SlashCheck(s, name) ==
    IF ~IsSubstring(S_slash, name) THEN Warn(s, M_Slash(name)) ELSE s

NameFormat(s) ==
    IF ~Running(s) \/ ~Contains(K_name, s.config) THEN s
    ELSE LET name == s.config.dict[K_name] IN
         IF ~IsStr(name) THEN Raise(s, "AttributeError")
         ELSE SlashCheck(NamespaceCheck(s, name.str), name.str)

\* Mutant: an array that is present counts, even when it is empty.
HasNonEmpty_presence(cfg, key) ==
    LET v == Get(cfg, key) IN
    IF v = List(<<>>) THEN [exc |-> "none", truth |-> TRUE]
    ELSE IF ~Truthy(v) THEN [exc |-> "none", truth |-> FALSE]
    ELSE IF ~HasLen(v) THEN [exc |-> "TypeError", truth |-> FALSE]
    ELSE [exc |-> "none", truth |-> PyLen(v) > 0]

\* config.get(key) and len(config[key]) > 0
HasNonEmpty(cfg, key) ==
    LET v == Get(cfg, key) IN
    IF ~Truthy(v) THEN [exc |-> "none", truth |-> FALSE]
    ELSE IF ~HasLen(v) THEN [exc |-> "TypeError", truth |-> FALSE]
    ELSE [exc |-> "none", truth |-> PyLen(v) > 0]

\* if not has_packages and not has_remotes
DeploymentCheck(s) ==
    IF ~s.has_packages /\ ~s.has_remotes THEN Err(s, M_NoDeployment) ELSE s

DeploymentPresence(s) ==
    IF ~Running(s) THEN s
    ELSE LET hp == HasNonEmpty(s.config, K_packages) IN
         IF hp.exc # "none" THEN Raise(s, hp.exc)
         ELSE LET hr == HasNonEmpty(s.config, K_remotes) IN
              IF hr.exc # "none"
              THEN Raise([s EXCEPT !.has_packages = hp.truth], hr.exc)
              ELSE DeploymentCheck([s EXCEPT !.has_packages = hp.truth,
                                             !.has_remotes = hr.truth])

platform_keys == <<K_os, K_arch, K_uri, K_sha256>>

RECURSIVE PlatformKeysLoop(_, _, _, _, _)
PlatformKeysLoop(s, idx, pidx, platform, i) ==
    IF i > Len(platform_keys) THEN s
    ELSE PlatformKeysLoop(
             IF ~Contains(platform_keys[i], platform)
             THEN Err(s, M_Platform(idx, pidx, platform_keys[i])) ELSE s,
             idx, pidx, platform, i + 1)

ValidatePlatform(s, idx, pidx, platform) ==
    IF ~CanContain(platform) THEN Raise(s, "TypeError")
    ELSE PlatformKeysLoop(s, idx, pidx, platform, 1)

RECURSIVE PlatformsLoop(_, _, _, _)
PlatformsLoop(s, idx, items, i) ==
    IF ~Running(s) \/ i > Len(items) THEN s
    ELSE PlatformsLoop(ValidatePlatform(s, idx, i - 1, items[i]), idx, items, i + 1)

\* Mutant: only the presence of `platforms` is tested, not its emptiness.
ValidatePlatforms_presence(s, idx, package) ==
    IF ~Contains(K_platforms, package) THEN Err(s, M_PkgPlatforms(idx))
    ELSE IF ~Iterable(package.dict[K_platforms]) THEN Raise(s, "TypeError")
    ELSE PlatformsLoop(s, idx, Items(package.dict[K_platforms]), 1)

\* The platforms branch of an MCPB package.
ValidatePlatforms(s, idx, package) ==
    IF ~Contains(K_platforms, package) \/ ~Truthy(package.dict[K_platforms])
    THEN Err(s, M_PkgPlatforms(idx))
    ELSE IF ~Iterable(package.dict[K_platforms]) THEN Raise(s, "TypeError")
    ELSE PlatformsLoop(s, idx, Items(package.dict[K_platforms]), 1)

ValidateMcpb(s, idx, package) ==
    LET s1 == IF ~Contains(K_uri, package) THEN Err(s, M_PkgUri(idx)) ELSE s
        s2 == IF ~Contains(K_sha256, package) THEN Err(s1, M_PkgSha(idx)) ELSE s1
    IN ValidatePlatforms(s2, idx, package)

\* The type check of a package.
CheckPackageType(s, idx, pkg_type) ==
    IF ~Truthy(pkg_type) THEN Err(s, M_PkgType(idx))
    ELSE IF pkg_type \notin KnownPackageTypes
    THEN Warn(s, M_PkgUnknown(idx, Render(pkg_type)))
    ELSE s

ValidatePackage(s, idx, package) ==
    IF ~IsDict(package) THEN Raise(s, "AttributeError")
    ELSE LET pkg_type == Get(package, K_type)
             s1 == CheckPackageType(s, idx, pkg_type)
         IN IF pkg_type = Str(S_mcpb) THEN ValidateMcpb(s1, idx, package) ELSE s1

RECURSIVE PackagesLoop(_, _, _)
PackagesLoop(s, items, i) ==
    IF ~Running(s) \/ i > Len(items) THEN s
    ELSE PackagesLoop(ValidatePackage(s, i - 1, items[i]), items, i + 1)

ValidatePackages(s) ==
    IF ~Running(s) \/ ~s.has_packages THEN s
    ELSE PackagesLoop(s, Items(s.config.dict[K_packages]), 1)

\* The transport check of a remote.
CheckTransport(s, idx, remote) ==
    IF ~Contains(K_transport, remote) THEN Err(s, M_RemTransport(idx))
    ELSE IF ~IsDict(remote) THEN Raise(s, "TypeError")
    ELSE IF remote.dict[K_transport] \notin KnownTransports
    THEN Warn(s, M_RemUnknown(idx, Render(remote.dict[K_transport])))
    ELSE s

ValidateRemote(s, idx, remote) ==
    IF ~CanContain(remote) THEN Raise(s, "TypeError")
    ELSE LET s1 == IF ~Contains(K_endpoint, remote)
                   THEN Err(s, M_RemEndpoint(idx)) ELSE s
         IN CheckTransport(s1, idx, remote)

RECURSIVE RemotesLoop(_, _, _)
RemotesLoop(s, items, i) ==
    IF ~Running(s) \/ i > Len(items) THEN s
    ELSE RemotesLoop(ValidateRemote(s, i - 1, items[i]), items, i + 1)

ValidateRemotes(s) ==
    IF ~Running(s) \/ ~s.has_remotes THEN s
    ELSE RemotesLoop(s, Items(s.config.dict[K_remotes]), 1)

RECURSIVE RecommendedLoop(_, _)
RecommendedLoop(s, i) ==
    IF i > Len(recommended_fields) THEN s
    ELSE RecommendedLoop(
             IF ~Contains(recommended_fields[i], s.config)
             THEN Warn(s, M_Recommended(recommended_fields[i])) ELSE s,
             i + 1)

RecommendedFields(s) == IF ~Running(s) THEN s ELSE RecommendedLoop(s, 1)

RepositoryShape(s) ==
    IF ~Running(s) \/ ~Contains(K_repository, s.config) THEN s
    ELSE LET repo == s.config.dict[K_repository] IN
         IF ~IsDict(repo) THEN Err(s, M_RepoObject)
         ELSE LET s1 == IF ~Contains(K_type, repo) THEN Warn(s, M_RepoType) ELSE s
              IN IF ~Contains(K_url, repo) THEN Warn(s1, M_RepoUrl) ELSE s1

\* Mutant: the name-format block stands after the remotes block.
RunRules_name_late(s) ==
    RepositoryShape(RecommendedFields(NameFormat(ValidateRemotes(ValidatePackages(
        DeploymentPresence(RequiredFields(s)))))))

\* The rules in statement order.
RunRules(s) ==
    RepositoryShape(RecommendedFields(ValidateRemotes(ValidatePackages(
        DeploymentPresence(NameFormat(RequiredFields(s)))))))

\* The frame when the call ends: by `return errors, warnings` when exc is
\* "none", by the uncaught exception otherwise.
validate_server_json(cfg) == RunRules(Frame(cfg))

---------------------------------------------------------------------------
(* main: the blocks it prints and the faults of its summary *)

\* The ERRORS / WARNINGS block: a heading, one bullet per message, a blank.
Block(heading, msgs) ==
    IF msgs = <<>> THEN <<>>
    ELSE <<heading>> \o [i \in 1..Len(msgs) |-> "  * {message}"] \o <<"">>

\* The closing status line.
StatusLine(errs, warns) ==
    IF errs = <<>> /\ warns = <<>> THEN "server.json looks good!"
    ELSE IF errs = <<>> THEN "server.json is valid (with warnings above)"
    ELSE "server.json has validation errors"

\* Mutant: the error branch lacks its sys.exit(1).
ExitsOnErrors_never(errs) == FALSE

\* if ... else: print(...); sys.exit(1)
ExitsOnErrors(errs) == errs # <<>>

\* v[:60] is defined for strs and lists (a number, bool or null is not
\* subscriptable; no input has a mapping here).
Sliceable(v) == Kind(v) \in {"str", "list"}

SummaryLines ==
    <<"Configuration Summary:", "  Name: {name}", "  Version: {version}",
      "  Description: {description[:60]}...", "  License: {license}",
      "  Homepage: {homepage}", "  Packages: {len(packages)}",
      "  Remotes: {len(remotes)}">>

\* The summary lines printed and the exception that cuts them short: a line
\* whose f-string faults is not printed.
SummaryRun(cfg) ==
    IF ~Sliceable(GetOr(cfg, K_description, Str(<<>>)))
    THEN [lines |-> SubSeq(SummaryLines, 1, 3), exc |-> "TypeError"]
    ELSE IF ~HasLen(GetOr(cfg, K_packages, List(<<>>)))
    THEN [lines |-> SubSeq(SummaryLines, 1, 6), exc |-> "TypeError"]
    ELSE IF ~HasLen(GetOr(cfg, K_remotes, List(<<>>)))
    THEN [lines |-> SubSeq(SummaryLines, 1, 7), exc |-> "TypeError"]
    ELSE [lines |-> SummaryLines, exc |-> "none"]

\* The platform-support frame: printed lines and the exception, if any.
RECURSIVE PlatformLinesLoop(_, _, _)
PlatformLinesLoop(p, items, i) ==
    IF p.exc # "none" \/ i > Len(items) THEN p
    ELSE PlatformLinesLoop(
             IF ~IsDict(items[i]) THEN [p EXCEPT !.exc = "AttributeError"]
             ELSE [p EXCEPT !.lines = Append(@, "    * {os_name}/{arch}")],
             items, i + 1)

PackagePlatformLines(p, pkg) ==
    IF ~IsDict(pkg) THEN [p EXCEPT !.exc = "AttributeError"]
    ELSE IF Get(pkg, K_type) = Str(S_mcpb) /\ Truthy(Get(pkg, K_platforms))
    THEN IF ~HasLen(pkg.dict[K_platforms]) THEN [p EXCEPT !.exc = "TypeError"]
         ELSE PlatformLinesLoop(
                  [p EXCEPT !.lines = Append(@, "  Platform Support ({n} platforms):")],
                  Items(pkg.dict[K_platforms]), 1)
    ELSE p

RECURSIVE PackageLinesLoop(_, _, _)
PackageLinesLoop(p, items, i) ==
    IF p.exc # "none" \/ i > Len(items) THEN p
    ELSE PackageLinesLoop(PackagePlatformLines(p, items[i]), items, i + 1)

PlatformSupportRun(cfg) ==
    LET p0 == [lines |-> <<>>, exc |-> "none"] IN
    IF ~Truthy(Get(cfg, K_packages)) THEN p0
    ELSE IF ~Iterable(GetOr(cfg, K_packages, List(<<>>)))
    THEN [p0 EXCEPT !.exc = "TypeError"]
    ELSE PackageLinesLoop(p0, Items(GetOr(cfg, K_packages, List(<<>>))), 1)

---------------------------------------------------------------------------
(* Input documents *)

\* Longest packages list, platforms list and remotes list of an input.
MaxPkgs == 2
MaxPlats == 2
MaxRemotes == 2

S_tool == <<"a", "c", "m", "e", "/", "t", "o", "o", "l">>
S_io_github_acme_tool == S_io_github \o S_tool
S_com_acme_tool == S_com \o S_tool
S_acme_tool == <<"a", "c", "m", "e", "-", "t", "o", "o", "l">>
S_io_github_acme == S_io_github \o <<"a", "c", "m", "e">>
S_1_0_0 == <<"1", ".", "0", ".", "0">>
S_A_tool == <<"A", " ", "t", "o", "o", "l">>
S_MIT == <<"M", "I", "T">>
S_x == <<"x">>
S_ab == <<"a", "b">>
S_foo == <<"f", "o", "o">>
S_graphql == <<"g", "r", "a", "p", "h", "q", "l">>
S_os_arch_uri_sha256 == K_os \o <<"-">> \o K_arch \o <<"-">> \o K_uri \o <<"-">> \o K_sha256

\* Either the value or the key left out.
Opt(v) == {Absent, v}

NameOpts ==
    {Absent, Str(<<>>), Str(S_io_github_acme_tool), Str(S_com_acme_tool),
     Str(S_acme_tool), Str(S_io_github_acme), Str(S_tool), Num(5)}
VersionOpts == {Absent, Str(<<>>), Str(S_1_0_0)}
DescriptionOpts == {Absent, Str(<<>>), Str(S_A_tool), Num(5)}
RepositoryOpts ==
    {Absent, Str(S_x)}
    \cup {MkDict((K_type :> t) @@ (K_url :> u)) : t \in Opt(Str(S_x)), u \in Opt(Str(S_x))}

\* Sequences of 1..n elements: the first from First, the others from Rest.
RECURSIVE ListsOf(_, _, _)
ListsOf(First, Rest, n) ==
    IF n <= 0 THEN {}
    ELSE IF n = 1 THEN {<<h>> : h \in First}
    ELSE LET shorter == ListsOf(First, Rest, n - 1) IN
         shorter \cup {Append(l, t) : l \in {x \in shorter : Len(x) = n - 1}, t \in Rest}

Platform(os, arch, uri, sha) ==
    MkDict((K_os :> os) @@ (K_arch :> arch) @@ (K_uri :> uri) @@ (K_sha256 :> sha))

Platforms ==
    {Platform(o, a, u, h) : o \in Opt(Str(S_x)), a \in Opt(Str(S_x)),
                            u \in Opt(Str(S_x)), h \in Opt(Str(S_x))}
    \cup {Num(5), Str(S_os_arch_uri_sha256)}
PlatformsTail == {EmptyDict, Platform(Str(S_x), Str(S_x), Str(S_x), Str(S_x))}

PlatformsOpts ==
    {Absent, Num(5), List(<<>>)}
    \cup {List(l) : l \in ListsOf(Platforms, PlatformsTail, MaxPlats)}

Package(type, uri, sha, platforms) ==
    MkDict((K_type :> type) @@ (K_uri :> uri) @@ (K_sha256 :> sha)
           @@ (K_platforms :> platforms))

Packages ==
    {Package(t, Absent, Absent, Absent) :
        t \in {Absent, Null, Num(5), Str(<<>>), Str(S_npm), Str(S_foo)}}
    \cup {Str(S_x), Package(Str(S_npm), Absent, Absent, List(<<EmptyDict>>))}
    \cup {Package(Str(S_mcpb), u, h, p) :
            u \in Opt(Str(S_x)), h \in Opt(Str(S_x)), p \in PlatformsOpts}
PackagesTail ==
    {Package(Absent, Absent, Absent, Absent),
     Package(Str(S_mcpb), Str(S_x), Absent, List(<<EmptyDict>>))}

PackagesOpts ==
    {Num(5), Str(S_ab)}
    \cup {List(l) : l \in ListsOf(Packages, PackagesTail, MaxPkgs)}

Remote(endpoint, transport) ==
    MkDict((K_endpoint :> endpoint) @@ (K_transport :> transport))

Remotes ==
    {Remote(e, t) : e \in Opt(Str(S_x)),
                    t \in {Absent, Str(S_sse), Str(S_streamable_http), Str(S_graphql)}}
    \cup {Num(5), Str(S_x), Str(K_transport), List(<<Str(K_endpoint), Str(K_transport)>>)}
RemotesTail == {EmptyDict, Remote(Str(S_x), Str(S_sse))}

RemotesOpts ==
    {Num(5), Str(S_ab)}
    \cup {List(l) : l \in ListsOf(Remotes, RemotesTail, MaxRemotes)}

Doc(name, version, description, license, homepage, repository, packages, remotes) ==
    MkDict((K_name :> name) @@ (K_version :> version)
           @@ (K_description :> description) @@ (K_license :> license)
           @@ (K_homepage :> homepage) @@ (K_repository :> repository)
           @@ (K_packages :> packages) @@ (K_remotes :> remotes))

\* <<packages, remotes>> of the documents that vary the top-level fields.
PlainDeployments ==
    {<<Absent, Absent>>, <<List(<<>>), List(<<>>)>>,
     <<List(<<Package(Str(S_npm), Absent, Absent, Absent)>>), Absent>>,
     <<Null, List(<<Remote(Str(S_x), Str(S_sse))>>)>>,
     <<List(<<Package(Str(S_npm), Absent, Absent, Absent)>>), Null>>}

\* Documents that vary the top-level fields.
TopDocs ==
    {Doc(n, v, d, l, h, r, dep[1], dep[2]) :
        n \in NameOpts, v \in VersionOpts, d \in DescriptionOpts,
        l \in Opt(Str(S_MIT)), h \in Opt(Str(S_x)), r \in RepositoryOpts,
        dep \in PlainDeployments}

\* <<name, version, description, repository>> of the documents that vary
\* the deployments: all required fields good; all bad, with a repository
\* that is no object; a name with both format warnings, an empty version
\* and a repository object without its sub-fields.
PlainTops ==
    {<<Str(S_io_github_acme_tool), Str(S_1_0_0), Str(S_A_tool), Absent>>,
     <<Absent, Str(<<>>), Absent, Str(S_x)>>,
     <<Str(S_acme_tool), Str(<<>>), Str(S_A_tool), EmptyDict>>}

\* Documents that vary the packages.
PackageDocs ==
    {Doc(top[1], top[2], top[3], Absent, Absent, top[4], p, r) :
        top \in PlainTops, p \in PackagesOpts,
        r \in Opt(List(<<Remote(Absent, Str(S_graphql))>>))}

\* Documents that vary the remotes.
RemoteDocs ==
    {Doc(top[1], top[2], top[3], Absent, Absent, top[4], p, r) :
        top \in PlainTops, r \in RemotesOpts,
        p \in Opt(List(<<Package(Str(S_foo), Absent, Absent, Absent)>>))}

Docs == TopDocs \cup PackageDocs \cup RemoteDocs

\* The first document of the repeated-call harness: any remotes, or any one
\* package.
CallDocs ==
    RemoteDocs
    \cup {Doc(top[1], top[2], top[3], Absent, Absent, top[4], List(<<p>>), r) :
            top \in PlainTops, p \in Packages,
            r \in Opt(List(<<Remote(Absent, Str(S_graphql))>>))}

\* The second document of the repeated-call harness.
OtherDoc ==
    Doc(Str(S_acme_tool), Str(<<>>), Str(S_A_tool), Absent, Absent, Str(S_x),
        Absent, List(<<Remote(Absent, Str(S_graphql))>>))

---------------------------------------------------------------------------
(* main *)

NoCall == [called |-> FALSE, again |-> FALSE, doc |-> Absent, errors |-> <<>>,
           warnings |-> <<>>, exc |-> "none"]

Init ==
    /\ fs \in {"missing", "directory", "invalid_json", "not_utf8", "too_deep",
               "int_too_long", "ok"}
    /\ content \in IF fs = "ok" THEN Docs ELSE {Absent}
    /\ pool = <<>>
    /\ memo = <<>>
    /\ last = 0
    /\ pc = "load"
    /\ config = Absent
    /\ errors = <<>>
    /\ warnings = <<>>
    /\ exc = "none"
    /\ out = <<>>
    /\ exit = 0 - 1
    /\ calls = 0
    /\ outcome = "none"

\* open() raises FileNotFoundError: report and sys.exit(1).
LoadNotFound ==
    /\ pc = "load"
    /\ fs = "missing"
    /\ out' = Append(out, "Error: server.json not found")
    /\ exit' = 1
    /\ pc' = "exited"
    /\ UNCHANGED <<fs, content, pool, memo, last, config, errors, warnings, exc, calls, outcome>>

\* json.load raises JSONDecodeError, which the scan raises for a syntax
\* error only: report and sys.exit(1).
LoadInvalidJson ==
    /\ pc = "load"
    /\ fs = "invalid_json"
    /\ out' = Append(out, "Error: Invalid JSON in server.json: {e}")
    /\ exit' = 1
    /\ pc' = "exited"
    /\ UNCHANGED <<fs, content, pool, memo, last, config, errors, warnings, exc, calls, outcome>>

\* The exception of open() or json.load that neither except clause names:
\* IsADirectoryError is an OSError but no FileNotFoundError, and
\* UnicodeDecodeError, RecursionError and the ValueError of the integer
\* conversion limit are no JSONDecodeError (JSONDecodeError is a subclass
\* of ValueError, not the reverse).
LoadException ==
    CASE fs = "directory" -> "IsADirectoryError"
      [] fs = "not_utf8" -> "UnicodeDecodeError"
      [] fs = "too_deep" -> "RecursionError"
      [] fs = "int_too_long" -> "ValueError"

\* The load raises an exception that main does not catch: nothing is
\* printed, the interpreter writes the traceback and exits with status 1.
LoadUncaught ==
    /\ pc = "load"
    /\ fs \in {"directory", "not_utf8", "too_deep", "int_too_long"}
    /\ exc' = LoadException
    /\ exit' = 1
    /\ pc' = "exited"
    /\ UNCHANGED <<fs, content, pool, memo, last, config, errors, warnings, out, calls, outcome>>

\* The document is decoded; main announces the validation.
LoadOk ==
    /\ pc = "load"
    /\ fs = "ok"
    /\ config' = content
    /\ out' = Append(out, "Validating server.json...")
    /\ pc' = "validate"
    /\ UNCHANGED <<fs, content, pool, memo, last, errors, warnings, exc, exit, calls, outcome>>

\* errors, warnings = validate_server_json(config); an exception it raises
\* is caught nowhere: the interpreter prints the traceback and exits 1.
Validate ==
    /\ pc = "validate"
    /\ LET r == validate_server_json(config) IN
       /\ calls' = calls + 1
       /\ config' = r.config
       /\ outcome' = IF r.exc = "none" THEN "returned" ELSE "raised"
       /\ IF r.exc = "none"
          THEN /\ errors' = r.errors
               /\ warnings' = r.warnings
               /\ pc' = "report"
               /\ UNCHANGED <<exc, exit>>
          ELSE /\ exc' = r.exc
               /\ exit' = 1
               /\ pc' = "exited"
               /\ UNCHANGED <<errors, warnings>>
    /\ UNCHANGED <<fs, content, pool, memo, last, out>>

\* The ERRORS and WARNINGS blocks and the status line; with errors,
\* sys.exit(1).
Report ==
    /\ pc = "report"
    /\ out' = out \o Block("ERRORS:", errors) \o Block("WARNINGS:", warnings)
                  \o <<StatusLine(errors, warnings)>>
    /\ IF ExitsOnErrors(errors)
       THEN exit' = 1 /\ pc' = "exited"
       ELSE pc' = "summary" /\ UNCHANGED exit
    /\ UNCHANGED <<fs, content, pool, memo, last, config, errors, warnings, exc, calls, outcome>>

\* The configuration summary; a faulting line ends the process with 1.
Summary ==
    /\ pc = "summary"
    /\ LET r == SummaryRun(config) IN
       /\ out' = out \o r.lines
       /\ IF r.exc = "none"
          THEN pc' = "platforms" /\ UNCHANGED <<exc, exit>>
          ELSE exc' = r.exc /\ exit' = 1 /\ pc' = "exited"
    /\ UNCHANGED <<fs, content, pool, memo, last, config, errors, warnings, calls, outcome>>

\* The platform-support blocks.
PlatformSupport ==
    /\ pc = "platforms"
    /\ LET r == PlatformSupportRun(config) IN
       /\ out' = out \o r.lines
       /\ IF r.exc = "none"
          THEN pc' = "return" /\ UNCHANGED <<exc, exit>>
          ELSE exc' = r.exc /\ exit' = 1 /\ pc' = "exited"
    /\ UNCHANGED <<fs, content, pool, memo, last, config, errors, warnings, calls, outcome>>

\* return 0; sys.exit(main())
Return ==
    /\ pc = "return"
    /\ exit' = 0
    /\ pc' = "exited"
    /\ UNCHANGED <<fs, content, pool, memo, last, config, errors, warnings, exc, out, calls, outcome>>

Next ==
    \/ LoadNotFound
    \/ LoadInvalidJson
    \/ LoadUncaught
    \/ LoadOk
    \/ Validate
    \/ Report
    \/ Summary
    \/ PlatformSupport
    \/ Return

Spec == Init /\ [][Next]_vars

---------------------------------------------------------------------------
(* A caller that validates two documents again and again, in any order *)

InitCalls ==
    /\ fs = "ok"
    /\ content = Absent
    /\ pool \in {<<d, OtherDoc>> : d \in CallDocs}
    /\ memo = <<NoCall, NoCall>>
    /\ last = 0
    /\ pc = "caller"
    /\ config = Absent
    /\ errors = <<>>
    /\ warnings = <<>>
    /\ exc = "none"
    /\ out = <<>>
    /\ exit = 0 - 1
    /\ calls = 0
    /\ outcome = "none"

\* The caller calls validate_server_json(pool[i]).  The parameter `config`
\* names the caller's object; lines 9-10 bind `errors` and `warnings` to new
\* lists.  Until then the variables hold what the previous call left.
\* memo keeps the document as first passed, and whether this call repeats
\* an earlier one after a call on the other document.
CallEnter(i) ==
    /\ pc = "caller"
    /\ last' = i
    /\ memo' = IF memo[i].called
               THEN [memo EXCEPT ![i].again = @ \/ last # i]
               ELSE [memo EXCEPT ![i].doc = pool[i]]
    /\ config' = pool[i]
    /\ errors' = errors_init
    /\ warnings' = warnings_init
    /\ exc' = "none"
    /\ outcome' = "none"
    /\ pc' = "v_required"
    /\ UNCHANGED <<fs, content, pool, out, exit, calls>>

\* The running call's frame, read from the state.
CallFrame ==
    [config |-> config, errors |-> errors, warnings |-> warnings, exc |-> exc,
     has_packages |-> FALSE, has_remotes |-> FALSE]

\* A block of statements took the frame to s: the lists and the document
\* (the caller's object, pool[last]) are as the block left them; an
\* exception skips the rest of the body.
CallStep(s, next) ==
    /\ config' = s.config
    /\ pool' = [pool EXCEPT ![last] = s.config]
    /\ errors' = s.errors
    /\ warnings' = s.warnings
    /\ exc' = s.exc
    /\ pc' = IF s.exc = "none" THEN next ELSE "v_raise"
    /\ UNCHANGED <<fs, content, memo, last, out, exit, calls, outcome>>

CallRequired == pc = "v_required" /\ CallStep(RequiredFields(CallFrame), "v_name")

CallNameFormat == pc = "v_name" /\ CallStep(NameFormat(CallFrame), "v_deployments")

\* has_packages and has_remotes live from line 29 to line 65.
CallDeployments ==
    /\ pc = "v_deployments"
    /\ CallStep(ValidateRemotes(ValidatePackages(DeploymentPresence(CallFrame))),
                "v_recommended")

CallRecommended ==
    pc = "v_recommended" /\ CallStep(RecommendedFields(CallFrame), "v_repository")

CallRepository ==
    pc = "v_repository" /\ CallStep(RepositoryShape(CallFrame), "v_return")

\* The call is over: the caller holds the two lists, or the exception.
\* memo keeps the outcome of the first call on the document.
CallOver(how) ==
    /\ outcome' = how
    /\ memo' = IF memo[last].called THEN memo
               ELSE [memo EXCEPT ![last].called = TRUE, ![last].errors = errors,
                                 ![last].warnings = warnings, ![last].exc = exc]
    /\ pc' = "caller"
    /\ UNCHANGED <<fs, content, pool, last, config, errors, warnings, exc, out, exit, calls>>

\* return errors, warnings
CallReturn == pc = "v_return" /\ CallOver("returned")

\* The exception reaches the caller.
CallRaise == pc = "v_raise" /\ CallOver("raised")

NextCalls ==
    \/ \E i \in 1..2 : CallEnter(i)
    \/ CallRequired
    \/ CallNameFormat
    \/ CallDeployments
    \/ CallRecommended
    \/ CallRepository
    \/ CallReturn
    \/ CallRaise

SpecCalls == InitCalls /\ [][NextCalls]_vars

---------------------------------------------------------------------------
(* Properties *)

Elems(seq) == {seq[i] : i \in 1..Len(seq)}

\* main got (errors, warnings) back from validate_server_json.
Returned == outcome = "returned"

Present(d, k) == k \in DOMAIN d.dict

\* The key holds a non-empty JSON array.
NonEmptyArray(d, k) == Present(d, k) /\ IsList(d.dict[k]) /\ Len(d.dict[k].list) > 0

\* The key is absent or holds an empty (falsy) value.
EmptyOrAbsent(d, k) == ~Present(d, k) \/ ~Truthy(d.dict[k])

\* C1: validate_server_json never raises, whatever the types of the
\* field values of the mapping it is given.
C1_NeverRaises == outcome # "raised"

SummaryPrinted == \A i \in 1..Len(SummaryLines) : SummaryLines[i] \in Elems(out)
NoSummaryLine == \A i \in 1..Len(SummaryLines) : SummaryLines[i] \notin Elems(out)

\* C2 (as claimed): every run that loads the document and gets the error
\* list back prints the whole summary block before it terminates, whether
\* the error list is empty or not.
C2_SummaryAlways == (pc = "exited" /\ Returned) => SummaryPrinted

\* The summary lines printed, in the order printed.
SummaryOut == SelectSeq(out, LAMBDA l : l \in Elems(SummaryLines))

\* The number of summary lines printed before the summary faults on the
\* document: line 135 slices description, lines 138 and 139 take the len of
\* packages and of remotes.  Len(SummaryLines) when no line faults.
SummaryReach ==
    IF Present(config, K_description)
       /\ ~IsStr(config.dict[K_description]) /\ ~IsList(config.dict[K_description])
    THEN 3
    ELSE IF Present(config, K_packages) /\ Kind(config.dict[K_packages]) \notin {"str", "list", "dict"}
    THEN 6
    ELSE IF Present(config, K_remotes) /\ Kind(config.dict[K_remotes]) \notin {"str", "list", "dict"}
    THEN 7
    ELSE Len(SummaryLines)

\* C2 (amended): the summary block is printed when, and only when, the
\* returned error list is empty.  With errors, main prints "has validation
\* errors" as its last line and exits with status 1 without any summary
\* line.  Without errors the process terminates only after the whole block
\* (heading, name, version, description, license, homepage, package count,
\* remote count, in this order), unless a summary line faults on a value
\* (C3): then the lines before the faulting one are printed and the process
\* ends with status 1.
C2_SummaryOnlyWithoutErrors ==
    /\ SummaryOut # <<>> => (Returned /\ errors = <<>>)
    /\ (pc = "exited" /\ Returned /\ errors # <<>>) =>
          /\ exit = 1
          /\ SummaryOut = <<>>
          /\ out[Len(out)] = "server.json has validation errors"
    /\ (pc = "exited" /\ Returned /\ errors = <<>>) =>
          /\ SummaryOut = SubSeq(SummaryLines, 1, SummaryReach)
          /\ SummaryReach < Len(SummaryLines) => (exit = 1 /\ exc = "TypeError")
          /\ SummaryReach = Len(SummaryLines) => SummaryPrinted

C2_Witness ==
    /\ pc = "exited" /\ Returned /\ errors # <<>> /\ exit = 1
    /\ out[Len(out)] = "server.json has validation errors"
    /\ NoSummaryLine

\* C3: for a document that loads, the exit status is 1 exactly when the
\* returned error list is non-empty and 0 otherwise.
C3_ExitIffErrors ==
    (pc = "exited" /\ Returned) => (exit = IF errors # <<>> THEN 1 ELSE 0)

\* C4: an empty error list means name, version and description are present
\* and non-empty and packages or remotes is a non-empty sequence; a document
\* whose packages and remotes are both empty or absent gets the deployment
\* error.
C4_ValidImpliesShape ==
    Returned =>
        /\ errors = <<>> =>
              /\ \A i \in 1..Len(required_fields) :
                    /\ Present(config, required_fields[i])
                    /\ Truthy(config.dict[required_fields[i]])
              /\ NonEmptyArray(config, K_packages) \/ NonEmptyArray(config, K_remotes)
        /\ (EmptyOrAbsent(config, K_packages) /\ EmptyOrAbsent(config, K_remotes))
              => M_NoDeployment \in Elems(errors)

C4_Witness ==
    /\ Returned /\ errors = <<>>
    /\ EmptyOrAbsent(config, K_packages) /\ NonEmptyArray(config, K_remotes)

\* C5: per required field, an absent key gives the Missing error and not
\* the empty error, a present falsy value the empty error and not the
\* Missing error, a present non-empty value neither.
C5_MissingXorEmpty ==
    Returned =>
        \A i \in 1..Len(required_fields) :
            LET f == required_fields[i]
                missing == M_Missing(f) \in Elems(errors)
                empty == M_Empty(f) \in Elems(errors)
            IN IF ~Present(config, f) THEN missing /\ ~empty
               ELSE IF ~Truthy(config.dict[f]) THEN empty /\ ~missing
               ELSE ~missing /\ ~empty

C5_Witness ==
    /\ Returned
    /\ ~Present(config, K_name)
    /\ Present(config, K_version) /\ config.dict[K_version] = Str(<<>>)
    /\ Present(config, K_description) /\ config.dict[K_description] = Str(S_A_tool)
    /\ M_Missing(K_name) \in Elems(errors)
    /\ M_Empty(K_version) \in Elems(errors)

HasPrefix(s, p) == Len(p) <= Len(s) /\ \A i \in 1..Len(p) : s[i] = p[i]

HasChar(s, c) == \E i \in 1..Len(s) : s[i] = c

Count(seq, x) == Cardinality({i \in 1..Len(seq) : seq[i] = x})

PosIn(seq, x) == CHOOSE i \in 1..Len(seq) : seq[i] = x

PackageLevelTexts ==
    {M_PkgType(0).text, M_PkgUri(0).text, M_PkgSha(0).text, M_PkgPlatforms(0).text}
PlatformText == M_Platform(0, 0, <<>>).text

\* The errors about package idx, in order.
PackageErrors(idx) ==
    SelectSeq(errors, LAMBDA m : m.idx = idx /\ m.text \in PackageLevelTexts \cup {PlatformText})

IsMcpb(pkg) == IsDict(pkg) /\ Present(pkg, K_type) /\ pkg.dict[K_type] = Str(S_mcpb)

\* C6: an mcpb package with uri, without sha256 and with an empty platforms
\* array gets exactly the sha256 and the platforms error and no platform
\* error; platform errors exist only for mcpb packages with a non-empty
\* platforms array, one per key among os, arch, uri, sha256 that a platform
\* lacks.
C6_PlatformErrors ==
    Returned =>
        LET pkgs == IF NonEmptyArray(config, K_packages)
                    THEN config.dict[K_packages].list ELSE <<>>
        IN
        /\ \A i \in 1..Len(pkgs) :
              (/\ IsMcpb(pkgs[i])
               /\ Present(pkgs[i], K_uri) /\ ~Present(pkgs[i], K_sha256)
               /\ Present(pkgs[i], K_platforms)
               /\ pkgs[i].dict[K_platforms] = List(<<>>))
              => PackageErrors(i - 1) = <<M_PkgSha(i - 1), M_PkgPlatforms(i - 1)>>
        /\ \A m \in Elems(errors) :
              m.text = PlatformText =>
                  /\ m.idx + 1 \in 1..Len(pkgs)
                  /\ IsMcpb(pkgs[m.idx + 1])
                  /\ NonEmptyArray(pkgs[m.idx + 1], K_platforms)
                  /\ m.pidx + 1 \in 1..Len(pkgs[m.idx + 1].dict[K_platforms].list)
                  /\ m.arg \in Elems(platform_keys)
                  /\ LET plat == pkgs[m.idx + 1].dict[K_platforms].list[m.pidx + 1]
                     IN IsDict(plat) => ~Present(plat, m.arg)
        /\ \A i \in 1..Len(pkgs) :
              (IsMcpb(pkgs[i]) /\ NonEmptyArray(pkgs[i], K_platforms)) =>
                  LET plats == pkgs[i].dict[K_platforms].list IN
                  \A p \in 1..Len(plats) : \A k \in Elems(platform_keys) :
                      IsDict(plats[p]) =>
                          Count(errors, M_Platform(i - 1, p - 1, k))
                              = IF Present(plats[p], k) THEN 0 ELSE 1

C6_Witness ==
    /\ Returned
    /\ NonEmptyArray(config, K_packages)
    /\ LET pkg == config.dict[K_packages].list[1] IN
       /\ IsMcpb(pkg)
       /\ Present(pkg, K_uri) /\ ~Present(pkg, K_sha256)
       /\ Present(pkg, K_platforms) /\ pkg.dict[K_platforms] = List(<<>>)
    /\ PackageErrors(0) = <<M_PkgSha(0), M_PkgPlatforms(0)>>

\* Where the rule order puts an error: <<rule, index, platform, check>>.
ErrKey(m) ==
    CASE m.text \in {M_Missing(<<>>).text, M_Empty(<<>>).text} ->
             <<1, PosIn(required_fields, m.arg), 0, 0>>
      [] m.text = M_NoDeployment.text -> <<2, 0, 0, 0>>
      [] m.text = M_PkgType(0).text -> <<3, m.idx, 0, 1>>
      [] m.text = M_PkgUri(0).text -> <<3, m.idx, 0, 2>>
      [] m.text = M_PkgSha(0).text -> <<3, m.idx, 0, 3>>
      [] m.text = M_PkgPlatforms(0).text -> <<3, m.idx, 0, 4>>
      [] m.text = PlatformText ->
             <<3, m.idx, m.pidx + 1, PosIn(platform_keys, m.arg)>>
      [] m.text = M_RemEndpoint(0).text -> <<4, m.idx, 0, 1>>
      [] m.text = M_RemTransport(0).text -> <<4, m.idx, 0, 2>>
      [] m.text = M_RepoObject.text -> <<5, 0, 0, 0>>

\* Where the rule order puts a warning.
WarnKey(m) ==
    CASE m.text = M_Namespace(<<>>).text -> <<1, 0, 0, 1>>
      [] m.text = M_Slash(<<>>).text -> <<1, 0, 0, 2>>
      [] m.text = M_PkgUnknown(0, <<>>).text -> <<2, m.idx, 0, 0>>
      [] m.text = M_RemUnknown(0, <<>>).text -> <<3, m.idx, 0, 0>>
      [] m.text = M_Recommended(<<>>).text ->
             <<4, PosIn(recommended_fields, m.arg), 0, 0>>
      [] m.text = M_RepoType.text -> <<5, 0, 0, 1>>
      [] m.text = M_RepoUrl.text -> <<5, 0, 0, 2>>

LexLess(a, b) ==
    \E i \in 1..4 : a[i] < b[i] /\ \A j \in 1..(i - 1) : a[j] = b[j]

ErrorsInRuleOrder ==
    \A i \in 1..(Len(errors) - 1) : LexLess(ErrKey(errors[i]), ErrKey(errors[i + 1]))

WarningsInRuleOrder ==
    \A i \in 1..(Len(warnings) - 1) :
        LexLess(WarnKey(warnings[i]), WarnKey(warnings[i + 1]))

\* Every later rule that applies has contributed, whatever came before it.
LaterRulesContribute ==
    /\ (EmptyOrAbsent(config, K_packages) /\ EmptyOrAbsent(config, K_remotes))
          => M_NoDeployment \in Elems(errors)
    /\ (Present(config, K_name) /\ ~HasChar(config.dict[K_name].str, "/"))
          => M_Slash(config.dict[K_name].str) \in Elems(warnings)
    /\ NonEmptyArray(config, K_packages) =>
          \A i \in 1..Len(config.dict[K_packages].list) :
              LET pkg == config.dict[K_packages].list[i] IN
              /\ ~Truthy(Get(pkg, K_type)) => M_PkgType(i - 1) \in Elems(errors)
              /\ (Truthy(Get(pkg, K_type)) /\ Get(pkg, K_type) \notin KnownPackageTypes)
                    => \E m \in Elems(warnings) :
                          m.text = M_PkgUnknown(0, <<>>).text /\ m.idx = i - 1
              /\ (IsMcpb(pkg) /\ ~Present(pkg, K_uri)) => M_PkgUri(i - 1) \in Elems(errors)
    /\ NonEmptyArray(config, K_remotes) =>
          \A i \in 1..Len(config.dict[K_remotes].list) :
              LET remote == config.dict[K_remotes].list[i] IN
              IsDict(remote) =>
                  /\ ~Present(remote, K_endpoint) => M_RemEndpoint(i - 1) \in Elems(errors)
                  /\ ~Present(remote, K_transport) => M_RemTransport(i - 1) \in Elems(errors)
                  /\ (Present(remote, K_transport)
                      /\ remote.dict[K_transport] \notin KnownTransports)
                        => \E m \in Elems(warnings) :
                              m.text = M_RemUnknown(0, <<>>).text /\ m.idx = i - 1
    /\ \A i \in 1..Len(recommended_fields) :
          ~Present(config, recommended_fields[i])
              => M_Recommended(recommended_fields[i]) \in Elems(warnings)
    /\ Present(config, K_repository) =>
          IF ~IsDict(config.dict[K_repository]) THEN M_RepoObject \in Elems(errors)
          ELSE /\ ~Present(config.dict[K_repository], K_type)
                     => M_RepoType \in Elems(warnings)
               /\ ~Present(config.dict[K_repository], K_url)
                     => M_RepoUrl \in Elems(warnings)

\* C7: both returned lists are in rule evaluation order (required fields,
\* deployment, packages by index with their platforms, remotes by index,
\* repository; name format, packages, remotes, recommended fields,
\* repository sub-fields), and no rule's failure suppresses a later rule.
C7_RuleOrder ==
    Returned => (ErrorsInRuleOrder /\ WarningsInRuleOrder /\ LaterRulesContribute)

\* One returned pair with errors of the required fields, a package, one of
\* its platforms and a remote, and with warnings of all five rules.
C7_Witness ==
    /\ Returned
    /\ \E a, b, c, d \in 1..Len(errors) :
          /\ a < b /\ b < c /\ c < d
          /\ ErrKey(errors[a])[1] = 1
          /\ ErrKey(errors[b])[1] = 3 /\ ErrKey(errors[b])[3] = 0
          /\ ErrKey(errors[c])[1] = 3 /\ ErrKey(errors[c])[3] > 0
          /\ ErrKey(errors[d])[1] = 4
    /\ \E a, b, c, d, e \in 1..Len(warnings) :
          /\ a < b /\ b < c /\ c < d /\ d < e
          /\ WarnKey(warnings[a])[1] = 1 /\ WarnKey(warnings[b])[1] = 2
          /\ WarnKey(warnings[c])[1] = 3 /\ WarnKey(warnings[d])[1] = 4
          /\ WarnKey(warnings[e])[1] = 5

\* C8: when a call is over, the caller holds what the first call on that
\* document gave (the same error and warning sequences, or the same
\* exception), whatever calls on the other document came in between and
\* whatever they left behind; and at no point of any call does a document
\* differ from what the caller first passed.
C8_SameDocSameResult ==
    /\ (pc = "caller" /\ last # 0) =>
          /\ memo[last].called
          /\ errors = memo[last].errors
          /\ warnings = memo[last].warnings
          /\ exc = memo[last].exc
    /\ \A i \in 1..Len(memo) : memo[i].doc # Absent => pool[i] = memo[i].doc

C8_Witness ==
    /\ pc = "caller"
    /\ last = 1 /\ memo[1].again /\ memo[2].called
    /\ pool[1] # pool[2]
    /\ outcome = "returned" /\ errors # <<>> /\ warnings # <<>>
    /\ errors # memo[2].errors /\ warnings # memo[2].warnings

\* The content of server.json is malformed: it decodes to no document.
Malformed == fs \in {"invalid_json", "not_utf8", "too_deep", "int_too_long"}

\* C9: a missing or malformed server.json is reported by main and ends the
\* process with status 1 with validate_server_json never invoked; it is
\* invoked at most once, and only on the document a successful load produced.
C9_LoadFailureReported ==
    /\ calls <= 1
    /\ calls = 1 => (fs = "ok" /\ config = content /\ pc # "load")
    /\ (fs = "missing" \/ Malformed) => (calls = 0 /\ outcome = "none")
    /\ (pc = "exited" /\ (fs = "missing" \/ Malformed)) =>
          /\ exit = 1
          /\ out \in {<<"Error: server.json not found">>,
                      <<"Error: Invalid JSON in server.json: {e}">>}

NameFormatWarnings ==
    SelectSeq(warnings, LAMBDA m : m.text \in {M_Namespace(<<>>).text, M_Slash(<<>>).text})

\* C10: with a name, the namespace warning is there exactly when the name
\* starts with neither io.github. nor com., and the slash warning exactly
\* when the name has no slash; without a name there is neither.
C10_NameFormat ==
    Returned =>
        IF ~Present(config, K_name) THEN NameFormatWarnings = <<>>
        ELSE LET name == config.dict[K_name].str
                 namespace == ~HasPrefix(name, S_io_github) /\ ~HasPrefix(name, S_com)
                 slash == ~HasChar(name, "/")
             IN /\ NameFormatWarnings =
                       (IF namespace THEN <<M_Namespace(name)>> ELSE <<>>)
                       \o (IF slash THEN <<M_Slash(name)>> ELSE <<>>)
                /\ name \in {S_io_github_acme_tool, S_com_acme_tool}
                      => NameFormatWarnings = <<>>
                /\ name = S_acme_tool => Len(NameFormatWarnings) = 2

C10_Witness ==
    /\ Returned
    /\ Present(config, K_name)
    /\ config.dict[K_name] = Str(S_io_github_acme)
    /\ NameFormatWarnings = <<M_Slash(S_io_github_acme)>>

===========================================================================
